---------------------------- MODULE Spec2Model ----------------------------
(***************************************************************************)
(* A model of the bookmark data validator (package app/):                  *)
(*   - the validation engine    app/schema_rules/data_schema.py            *)
(*   - the credential resolver  app/gitlab_utils/gitlab_auth.py            *)
(*   - the orchestrator         app/orchestrator/validator_runner.py,      *)
(*                              app/validators/bookmark_validator.py       *)
(*   - the local collector      app/loaders/yaml_loader.py                 *)
(*   - the remote collector     app/gitlab_utils/gitlab_client.py,         *)
(*                              app/gitlab_utils/gitlab_fetcher.py         *)
(*                                                                         *)
(* Python values are modelled by strings: "None", "True", "False" for the  *)
(* three results a presence check can give, ABSENT for a key a dict does   *)
(* not hold.                                                               *)
(***************************************************************************)
EXTENDS Integers, Sequences, FiniteSets, TLC

VARIABLES
    \* ---- validation engine (BookmarkJsonSchema.validate) ----
    bookmarks,      \* the record sequence handed to validate
    v_pc,           \* "idle" | "returned" | "raised"
    has_errors,     \* validate's return value (meaningful when returned)
    dup_log,        \* duplicate-URL violations logged, in order
    schema_log,     \* schema violations logged, in order
    v_calls,        \* how many times validate was called on this instance
    v_prev,         \* what the previous call on this instance produced
    \* ---- process environment and credential resolver ----
    env,            \* os.environ: variable name -> value (UNSET when not set)
    auth,           \* the GitLabAuthenticator's fields, read once by __init__
    last,           \* the last resolver call: operation, outcome, events
    \* ---- orchestrator (DataValidationOrchestrator, BookmarkValidator) ----
    pc,             \* "start" | "constructed" | "probed" | "fetch_remote" |
                    \* "local_only" | "exit" | "raised"
    probe,          \* check_environment's result: in_ci, fetch_others, auth_method
    fetched,        \* what fetch_all_bookmarks did in this run
    engine_calls,   \* how many times the validation engine was invoked
    exit_code,      \* run's return value: "none" | "0" | "1"
    exc,            \* the exception that left the constructor or run, or ""
    diagnostic,     \* the environment variables the run's log named as missing
    \* ---- local collector (loaders/yaml_loader.py) ----
    disk,           \* the directory handed to the loader and the files under it
    l_out,          \* what the last loader call returned
    \* ---- remote collector (gitlab_client.py, gitlab_fetcher.py) ----
    group,          \* what the server holds: the projects of the group
    r_out           \* what the last collector call returned or raised

v_vars == <<bookmarks, v_pc, has_errors, dup_log, schema_log, v_calls, v_prev>>
a_vars == <<env, auth, last>>
o_vars == <<pc, probe, fetched, engine_calls, exit_code, exc, diagnostic>>
l_vars == <<disk, l_out>>
r_vars == <<group, r_out>>
c_vars == <<l_vars, r_vars>>
vars == <<v_vars, a_vars, o_vars, c_vars>>

-----------------------------------------------------------------------------
(* Bounds of the model *)

MaxLen == 3

\* how many times validate is called on one engine instance
MaxCalls == 2

\* how many files lie under the directory handed to the local loader
MaxFiles == 3

\* how many entries the tree listing of a project holds
MaxEntries == 3

\* how many projects the listing of the group holds
MaxProjects == 3

-----------------------------------------------------------------------------
(* Records *)

ABSENT == "<absent>"

\* url values: two strings of the data model, and a YAML list (unhashable).
Urls == {"https://a.example", "https://b.example"}
ListUrl == "<list>"
UrlValues == Urls \cup {ListUrl}

\* a scalar that is not a string (an integer, say): hashable
NonString == "<int>"

\* domain values that are the host of a url of the model; "str" is any
\* other string
Hosts == {"a.example", "b.example"}

IsString(v) == v \in Urls \cup Hosts \cup {"str"}

\* dict.__hash__ / list.__hash__ are None: `x in set()` raises TypeError.
Hashable(v) == v # ListUrl

\* The keys a collected record may carry.  A key the dict does not hold is
\* ABSENT; index 0 stands for a missing _index (the default validate reads).
Provenances ==
    { [source_project |-> "current", source_file |-> "a.yml", index |-> 1],
      [source_project |-> "grp/p1",  source_file |-> "b.yml", index |-> 0] }

Payloads ==
    [ name : {"str", ABSENT}, url : UrlValues \cup {ABSENT}, domain : {"str"},
      category : {"str"}, packages : {"list"}, meta : {ABSENT},
      extra : {ABSENT} ]

MkRecord(p, prov) ==
    [ name |-> p.name, url |-> p.url, domain |-> p.domain,
      category |-> p.category, packages |-> p.packages, meta |-> p.meta,
      extra |-> p.extra, source_project |-> prov.source_project,
      source_file |-> prov.source_file, index |-> prov.index ]

Records == { MkRecord(p, prov) : p \in Payloads, prov \in Provenances }

SeqsUpTo(S, n) == UNION { [1..k -> S] : k \in 0..n }

\* The shapes a packages value can take: "list" a non-empty list of package
\* tags, "[]" the empty list, "[str]" a list holding a string, "str" a string.
PackagesValues == {"list", "[]", "[str]", "str"}
IsArray(v) == v \in {"list", "[]", "[str]"}

\* The shapes a meta value can take: a flat mapping, a mapping with nested
\* mappings, a string.
MetaValues == {"mapping", "nested", "str"}
IsObject(v) == v \in {"mapping", "nested"}

\* `extra` names one more top-level key of the source document: a key no
\* schema property declares ("color"), or "_location".
ExtraKeys == {"color", "_location"}

\* Records of every shape, for the checks that look at one record.
RichPayloads ==
    [ name : {"str", NonString, ABSENT}, url : {"https://a.example", NonString, ABSENT},
      domain : {"a.example", "str", ABSENT}, category : {"str", ABSENT},
      packages : PackagesValues \cup {ABSENT}, meta : MetaValues \cup {ABSENT},
      extra : ExtraKeys \cup {ABSENT} ]

RichRecords == { MkRecord(p, prov) : p \in RichPayloads, prov \in Provenances }

-----------------------------------------------------------------------------
(* The process environment: gitlab_constants.GitLabEnvVariables, and CI *)

CI == "CI"
CI_SERVER_URL == "CI_SERVER_URL"
BOOKMARK_DATA_GROUP_ID == "BOOKMARK_DATA_GROUP_ID"
ENCRYPTED_PAT == "ENCRYPTED_PAT"
PAT_ENCRYPTION_KEY == "PAT_ENCRYPTION_KEY"
ENCRYPTED_DEPLOY_TOKEN == "ENCRYPTED_DEPLOY_TOKEN"
ENCRYPTION_KEY == "ENCRYPTION_KEY"
DEPLOY_TOKEN_USERNAME == "DEPLOY_TOKEN_USERNAME"

EnvVariables ==
    { CI, CI_SERVER_URL, BOOKMARK_DATA_GROUP_ID, ENCRYPTED_PAT, PAT_ENCRYPTION_KEY,
      ENCRYPTED_DEPLOY_TOKEN, ENCRYPTION_KEY, DEPLOY_TOKEN_USERNAME }

\* A variable is not set (os.environ.get gives None), set to the empty
\* string, or set to a value.  A key or a ciphertext that is set is either
\* one the cipher accepts ("good") or one it rejects ("bad").
UNSET == "<unset>"
EMPTY == ""
GOOD == "good"
BAD == "bad"

SecretVariables ==
    { ENCRYPTED_PAT, PAT_ENCRYPTION_KEY, ENCRYPTED_DEPLOY_TOKEN, ENCRYPTION_KEY }

ValuesOf(v) ==
    IF v \in SecretVariables THEN {UNSET, EMPTY, GOOD, BAD} ELSE {UNSET, EMPTY, GOOD}

\* Python truthiness of os.environ.get(name): None and "" are falsy.
Truthy(x) == x \notin {UNSET, EMPTY}

\* all([...]) over values read from the environment
All(S) == \A x \in S : Truthy(x)

-----------------------------------------------------------------------------
(* The credential resolver: gitlab_auth.py *)

NotBuilt ==
    [ built |-> FALSE, encrypted_pat |-> UNSET, pat_encryption_key |-> UNSET,
      encrypted_deploy_token |-> UNSET, deploy_token_encryption_key |-> UNSET,
      deploy_token_username |-> UNSET ]

\* GitLabAuthenticator.__init__: the five fields, read from the environment
AuthenticatorOf(e) ==
    [ built |-> TRUE,
      encrypted_pat |-> e[ENCRYPTED_PAT],
      pat_encryption_key |-> e[PAT_ENCRYPTION_KEY],
      encrypted_deploy_token |-> e[ENCRYPTED_DEPLOY_TOKEN],
      deploy_token_encryption_key |-> e[ENCRYPTION_KEY],
      deploy_token_username |-> e[DEPLOY_TOKEN_USERNAME] ]

\* What a call gives back: a returned value or a raised exception, with the
\* cipher operations it performed, in order.
Return(value, events) ==
    [ outcome |-> "return", value |-> value, exc |-> "", events |-> events ]
Raise(ex, events) ==
    [ outcome |-> "raise", value |-> "", exc |-> ex, events |-> events ]

\* TokenCipher(key).decrypt(token): the constructor rejects an invalid key,
\* decrypt rejects a token the key does not open; both raise ValueError.
CipherDecrypt(kind, key, token) ==
    IF key = BAD THEN Raise("ValueError", << <<"TokenCipher", kind>> >>)
    ELSE IF token = BAD
         THEN Raise("ValueError", << <<"TokenCipher", kind>>, <<"decrypt", kind>> >>)
         ELSE Return("token", << <<"TokenCipher", kind>>, <<"decrypt", kind>> >>)

\* has_deploy_token: all([...]) of the three deploy fields
has_deploy_token(a) ==
    IF All({a.encrypted_deploy_token, a.deploy_token_encryption_key,
            a.deploy_token_username})
    THEN "True" ELSE "False"

\* has_pat: computes all([...]) into a local and falls off the end
has_pat(a) == "None"

\* _get_decrypted_pat
get_decrypted_pat(a) ==
    IF ~All({a.encrypted_pat, a.pat_encryption_key})
    THEN Raise("ValueError", << >>)
    ELSE CipherDecrypt("pat", a.pat_encryption_key, a.encrypted_pat)

\* get_pat_headers: {Private-Token: token}
get_pat_headers(a) ==
    LET t == get_decrypted_pat(a)
    IN IF t.outcome = "raise" THEN t ELSE Return("Private-Token", t.events)

\* _get_decrypted_deploy_token
get_decrypted_deploy_token(a) ==
    IF ~All({a.encrypted_deploy_token, a.deploy_token_encryption_key,
             a.deploy_token_username})
    THEN Raise("ValueError", << >>)
    ELSE CipherDecrypt("deploy", a.deploy_token_encryption_key,
                       a.encrypted_deploy_token)

\* get_deploy_token_headers: {Authorization: Basic base64(username:token)}
get_deploy_token_headers(a) ==
    LET t == get_decrypted_deploy_token(a)
    IN IF t.outcome = "raise" THEN t ELSE Return("Basic", t.events)

\* A resolver that tries the deploy kind first and the personal-access kind
\* on ValueError.
get_api_auth_headers_DeployFirst(a) ==
    LET d == get_deploy_token_headers(a)
    IN IF d.outcome = "return" THEN d
       ELSE LET q == get_pat_headers(a)
            IN [q EXCEPT !.events = d.events \o @]

\* A resolver without the except clause: the personal-access kind only.
get_api_auth_headers_NoFallback(a) == get_pat_headers(a)

\* get_api_auth_headers: the personal-access kind, and on ValueError the
\* deploy kind
get_api_auth_headers(a) ==
    LET p == get_pat_headers(a)
    IN IF p.outcome = "return" THEN p
       ELSE LET d == get_deploy_token_headers(a)
            IN [d EXCEPT !.events = p.events \o @]

\* A general resolver that shares the API resolver's fallback chain.
get_general_auth_headers_Api(a) == get_api_auth_headers(a)

\* get_general_auth_headers: the deploy kind
get_general_auth_headers(a) == get_deploy_token_headers(a)

NoProbe == [ in_ci |-> FALSE, fetch_others |-> FALSE, auth_method |-> "None" ]
NoFetch == [ kind |-> "none", exc |-> "", records |-> << >> ]

\* No diagnostic logged: the variables a diagnostic names, by bucket
NoDiagnostic == [ emitted |-> FALSE, base |-> {}, pat |-> {}, deploy |-> {} ]

OrchestratorIdle ==
    /\ pc = "start"
    /\ probe = NoProbe
    /\ fetched = NoFetch
    /\ engine_calls = 0
    /\ exit_code = "none"
    /\ exc = ""
    /\ diagnostic = NoDiagnostic

\* An engine instance on which validate has not been called
NoResult == [ calls |-> 0, outcome |-> "idle", has_errors |-> FALSE,
              dup_log |-> << >>, schema_log |-> << >> ]

EngineIdle ==
    /\ v_pc = "idle"
    /\ has_errors = FALSE
    /\ dup_log = << >>
    /\ schema_log = << >>
    /\ v_calls = 0
    /\ v_prev = NoResult

\* No directory given, no loader call made
NoDisk == [ exists |-> FALSE, files |-> << >> ]
NoLoad == [ op |-> "", file |-> 0, yaml_files |-> << >>, bookmarks |-> << >>,
            has_errors |-> FALSE ]

\* No group on the server, no collector call made
NoGroup == [ listing |-> "ok", projects |-> << >> ]
NoRemoteCall == [ op |-> "", project |-> 0, outcome |-> "", exc |-> "",
                  value |-> << >>, requests |-> << >> ]

CollectorsIdle ==
    /\ disk = NoDisk
    /\ l_out = NoLoad
    /\ group = NoGroup
    /\ r_out = NoRemoteCall

NoCall == [ op |-> "", outcome |-> "", value |-> "", exc |-> "", events |-> << >> ]

CallRecord(op, r) ==
    [ op |-> op, outcome |-> r.outcome, value |-> r.value, exc |-> r.exc,
      events |-> r.events ]

AuthInit ==
    /\ ~auth.built
    /\ auth' = AuthenticatorOf(env)
    /\ UNCHANGED <<env, last, v_vars, o_vars, c_vars>>

HasPat ==
    /\ auth.built
    /\ last' = CallRecord("has_pat", Return(has_pat(auth), << >>))
    /\ UNCHANGED <<env, auth, v_vars, o_vars, c_vars>>

HasDeployToken ==
    /\ auth.built
    /\ last' = CallRecord("has_deploy_token", Return(has_deploy_token(auth), << >>))
    /\ UNCHANGED <<env, auth, v_vars, o_vars, c_vars>>

GetPatHeaders ==
    /\ auth.built
    /\ last' = CallRecord("get_pat_headers", get_pat_headers(auth))
    /\ UNCHANGED <<env, auth, v_vars, o_vars, c_vars>>

GetDeployTokenHeaders ==
    /\ auth.built
    /\ last' = CallRecord("get_deploy_token_headers", get_deploy_token_headers(auth))
    /\ UNCHANGED <<env, auth, v_vars, o_vars, c_vars>>

GetApiAuthHeaders ==
    /\ auth.built
    /\ last' = CallRecord("get_api_auth_headers", get_api_auth_headers(auth))
    /\ UNCHANGED <<env, auth, v_vars, o_vars, c_vars>>

GetGeneralAuthHeaders ==
    /\ auth.built
    /\ last' = CallRecord("get_general_auth_headers", get_general_auth_headers(auth))
    /\ UNCHANGED <<env, auth, v_vars, o_vars, c_vars>>

CredentialEnvs ==
    { e \in [EnvVariables -> {UNSET, EMPTY, GOOD, BAD}] :
        /\ \A v \in EnvVariables : e[v] \in ValuesOf(v)
        /\ e[CI] = UNSET /\ e[CI_SERVER_URL] = GOOD
        /\ e[BOOKMARK_DATA_GROUP_ID] = GOOD }

InitAuth ==
    /\ env \in CredentialEnvs
    /\ auth = NotBuilt
    /\ last = NoCall
    /\ bookmarks = << >>
    /\ EngineIdle
    /\ OrchestratorIdle
    /\ CollectorsIdle

NextAuth ==
    \/ AuthInit
    \/ HasPat
    \/ HasDeployToken
    \/ GetPatHeaders
    \/ GetDeployTokenHeaders
    \/ GetApiAuthHeaders
    \/ GetGeneralAuthHeaders

SpecAuth == InitAuth /\ [][NextAuth]_vars

-----------------------------------------------------------------------------
(* The validation engine: BookmarkJsonSchema.validate *)

\* lines 243-251: the location string of a record
Location(b) ==
    IF b.source_project = "current"
    THEN [ form |-> "file, item index", project |-> "",
           file |-> b.source_file, index |-> b.index ]
    ELSE [ form |-> "project/file", project |-> b.source_project,
           file |-> b.source_file, index |-> 0 ]

\* The three keys the collectors add to a record
MetaFields == {"_source_file", "_source_project", "_index"}

\* A working copy that keeps the _index key.
StripMeta_KeepIndex(b) ==
    [ name |-> b.name, url |-> b.url, domain |-> b.domain,
      category |-> b.category, packages |-> b.packages, meta |-> b.meta,
      extra |-> b.extra,
      leftover |-> IF b.index # 0 THEN {"_index"} ELSE {} ]

\* lines 254-257: the working copy without the provenance keys; `leftover`
\* is the set of provenance keys the copy still holds.
StripMeta(b) ==
    [ name |-> b.name, url |-> b.url, domain |-> b.domain,
      category |-> b.category, packages |-> b.packages, meta |-> b.meta,
      extra |-> b.extra,
      leftover |-> MetaFields \ {"_source_file", "_source_project", "_index"} ]

\* line 281 stores the location under the key _location, replacing a value
\* the source document gave that key; line 286 pops the key again.
PopLocation(c) == [c EXCEPT !.extra = IF @ = "_location" THEN ABSENT ELSE @]

\* A schema that does not require packages.
RequiredFields_NoPackages == {"name", "url", "domain", "category"}

\* line 185: "required"
RequiredFields == {"name", "url", "domain", "category", "packages"}

\* The fallback schema's verdict on one working copy: the set of its defects.
SchemaDefects(c) ==
       { <<"required", f>> : f \in { g \in RequiredFields : c[g] = ABSENT } }
  \cup { <<"type", f>> : f \in { g \in {"name", "url", "domain", "category"} :
                                   c[g] # ABSENT /\ ~IsString(c[g]) } }
  \cup (IF c.packages # ABSENT /\ ~IsArray(c.packages)
        THEN {<<"type", "packages">>} ELSE {})
  \cup (IF c.packages = "[str]" THEN {<<"type", "packages.0">>} ELSE {})
  \cup (IF c.meta # ABSENT /\ ~IsObject(c.meta) THEN {<<"type", "meta">>} ELSE {})
  \cup (IF c.extra # ABSENT THEN {<<"additionalProperties", c.extra>>} ELSE {})
  \cup { <<"additionalProperties", k>> : k \in c.leftover }

\* jsonschema.validate raises one ValidationError (the best match) when the
\* instance has any defect: the returned list holds at most one message.
validate_json_schema(c, location) ==
    IF SchemaDefects(c) = {} THEN << >> ELSE << [location |-> location] >>

\* A duplicate check that keeps one set of seen urls per source file.
DupCheck_PerFile(acc, c, location, i) ==
    IF c.url = ABSENT THEN acc
    ELSE IF <<c.url, location.file>> \in acc.all_urls
         THEN [acc EXCEPT !.has_errors = TRUE,
                          !.dup_log = Append(@, [pos |-> i, location |-> location,
                                                 url |-> c.url])]
         ELSE [acc EXCEPT !.all_urls = @ \cup {<<c.url, location.file>>}]

\* A duplicate check that forgets a url once it has flagged it.
DupCheck_Forget(acc, c, location, i) ==
    IF c.url = ABSENT THEN acc
    ELSE IF c.url \in acc.all_urls
         THEN [acc EXCEPT !.has_errors = TRUE,
                          !.all_urls = @ \ {c.url},
                          !.dup_log = Append(@, [pos |-> i, location |-> location,
                                                 url |-> c.url])]
         ELSE [acc EXCEPT !.all_urls = @ \cup {c.url}]

\* lines 259-266: the duplicate check of record i against the urls seen so far
DupCheck(acc, c, location, i) ==
    IF c.url = ABSENT THEN acc
    ELSE IF c.url \in acc.all_urls
         THEN [acc EXCEPT !.has_errors = TRUE,
                          !.dup_log = Append(@, [pos |-> i, location |-> location,
                                                 url |-> c.url])]
         ELSE [acc EXCEPT !.all_urls = @ \cup {c.url}]

\* lines 242-282: the first loop, record by record in sequence order.  An
\* unhashable url makes `url in all_urls` raise TypeError out of validate.
\* Lines 268-278, which compare domain with the host of url, are comments:
\* the loop does nothing with domain.
RECURSIVE FirstLoop(_, _, _)
FirstLoop(bms, i, acc) ==
    IF i > Len(bms) THEN acc
    ELSE LET location == Location(bms[i])
             c == StripMeta(bms[i])
         IN IF c.url # ABSENT /\ ~Hashable(c.url)
            THEN [acc EXCEPT !.raised = TRUE]
            ELSE FirstLoop(bms, i + 1,
                     [DupCheck(acc, c, location, i) EXCEPT
                         !.clean = Append(@, [copy |-> c, location |-> location,
                                              pos |-> i])])

\* A second loop that stops at the first record the schema rejects.
RECURSIVE SecondLoop_StopAtFirst(_, _, _)
SecondLoop_StopAtFirst(clean, k, acc) ==
    IF k > Len(clean) THEN acc
    ELSE LET schema_errors == validate_json_schema(PopLocation(clean[k].copy),
                                                   clean[k].location)
         IN IF schema_errors # << >>
            THEN [acc EXCEPT !.has_errors = TRUE,
                             !.schema_log = Append(@, [pos |-> clean[k].pos,
                                              location |-> clean[k].location])]
            ELSE SecondLoop_StopAtFirst(clean, k + 1, acc)

\* lines 285-289: the second loop, one schema check per cleaned record
RECURSIVE SecondLoop(_, _, _)
SecondLoop(clean, k, acc) ==
    IF k > Len(clean) THEN acc
    ELSE LET schema_errors == validate_json_schema(PopLocation(clean[k].copy),
                                                   clean[k].location)
         IN SecondLoop(clean, k + 1,
               IF schema_errors # << >>
               THEN [acc EXCEPT !.has_errors = TRUE,
                                !.schema_log = Append(@, [pos |-> clean[k].pos,
                                                 location |-> clean[k].location])]
               ELSE acc)

\* A validate whose set of seen urls outlives the call: a later call on the
\* instance starts from the urls the earlier call collected.
ValidateResult_KeepUrls(bms) ==
    LET start == [ has_errors |-> FALSE,
                   all_urls |-> IF v_calls > 0
                                THEN { bookmarks[i].url : i \in
                                        { j \in 1..Len(bookmarks) :
                                            bookmarks[j].url # ABSENT } }
                                ELSE {},
                   raised |-> FALSE,
                   dup_log |-> << >>, schema_log |-> << >>, clean |-> << >> ]
        first == FirstLoop(bms, 1, start)
    IN IF first.raised THEN first ELSE SecondLoop(first.clean, 1, first)

\* lines 237-291: validate as a function of its input
ValidateResult(bms) ==
    LET start == [ has_errors |-> FALSE, all_urls |-> {}, raised |-> FALSE,
                   dup_log |-> << >>, schema_log |-> << >>, clean |-> << >> ]
        first == FirstLoop(bms, 1, start)
    IN IF first.raised THEN first ELSE SecondLoop(first.clean, 1, first)

\* One call of validate on the engine instance, with the same sequence
Validate ==
    /\ v_calls < MaxCalls
    /\ LET r == ValidateResult(bookmarks)
       IN /\ v_pc' = IF r.raised THEN "raised" ELSE "returned"
          /\ has_errors' = r.has_errors
          /\ dup_log' = r.dup_log
          /\ schema_log' = r.schema_log
    /\ v_calls' = v_calls + 1
    /\ v_prev' = [ calls |-> v_calls, outcome |-> v_pc, has_errors |-> has_errors,
                   dup_log |-> dup_log, schema_log |-> schema_log ]
    /\ UNCHANGED <<bookmarks, a_vars, o_vars, c_vars>>

InitValidate ==
    /\ bookmarks \in SeqsUpTo(Records, MaxLen)
    /\ EngineIdle
    /\ env = [v \in EnvVariables |-> UNSET]
    /\ auth = NotBuilt
    /\ last = NoCall
    /\ OrchestratorIdle
    /\ CollectorsIdle

NextValidate == Validate

SpecValidate == InitValidate /\ [][NextValidate]_vars

\* validate on one record of any shape
InitSchema ==
    /\ bookmarks \in { << r >> : r \in RichRecords }
    /\ EngineIdle
    /\ env = [v \in EnvVariables |-> UNSET]
    /\ auth = NotBuilt
    /\ last = NoCall
    /\ OrchestratorIdle
    /\ CollectorsIdle

NextSchema == Validate

SpecSchema == InitSchema /\ [][NextSchema]_vars

-----------------------------------------------------------------------------
(* The orchestrator: validator_runner.py, bookmark_validator.py *)

\* Python truthiness of a presence check's result
PyTruthy(x) == x = "True"

\* PatApiClient.__init__ (with BaseGitLabClient.__init__): CI_SERVER_URL must
\* be set, then the API headers are resolved at once.
PatApiClientInit(e, a) ==
    IF ~Truthy(e[CI_SERVER_URL]) THEN Raise("ValueError", << >>)
    ELSE get_api_auth_headers(a)

\* DataValidationOrchestrator.__init__: GitLabAuthenticator(),
\* BookmarkJsonSchema(), BookmarkValidator(schema, authenticator), whose
\* __init__ builds GitLabBookmarkFetcher(authenticator) and with it the
\* PatApiClient.
Construct ==
    /\ pc = "start"
    /\ auth' = AuthenticatorOf(env)
    /\ LET r == PatApiClientInit(env, AuthenticatorOf(env))
       IN /\ last' = CallRecord("PatApiClient.__init__", r)
          /\ pc' = IF r.outcome = "raise" THEN "raised" ELSE "constructed"
          /\ exc' = r.exc
    /\ UNCHANGED <<env, probe, fetched, engine_calls, exit_code, diagnostic, v_vars, c_vars>>

\* check_environment
CheckEnvironmentResult(e, a) ==
    LET in_ci == e[CI] # UNSET
        hp == has_pat(a)
        hdt == has_deploy_token(a)
    IN [ in_ci |-> in_ci,
         fetch_others |-> /\ in_ci
                          /\ Truthy(e[CI_SERVER_URL])
                          /\ Truthy(e[BOOKMARK_DATA_GROUP_ID])
                          /\ (PyTruthy(hdt) \/ PyTruthy(hp)),
         auth_method |-> IF PyTruthy(hp) THEN "PAT"
                         ELSE IF PyTruthy(hdt) THEN "Deploy Token" ELSE "None" ]

CheckEnvironment ==
    /\ pc = "constructed"
    /\ probe' = CheckEnvironmentResult(env, auth)
    /\ pc' = "probed"
    /\ UNCHANGED <<a_vars, fetched, engine_calls, exit_code, exc, diagnostic, v_vars, c_vars>>

\* verify_environment_status, lines 104-112: the text logged in CI when the
\* group cannot be fetched.  It is a fixed text that names all seven
\* variables.
EnvironmentHelp ==
    [ emitted |-> TRUE,
      base |-> {CI_SERVER_URL, BOOKMARK_DATA_GROUP_ID},
      pat |-> {ENCRYPTED_PAT, PAT_ENCRYPTION_KEY},
      deploy |-> {ENCRYPTED_DEPLOY_TOKEN, ENCRYPTION_KEY, DEPLOY_TOKEN_USERNAME} ]

\* verify_environment_status: True iff fetch_others
VerifyEnvironmentStatus ==
    /\ pc = "probed"
    /\ pc' = IF probe.fetch_others THEN "fetch_remote" ELSE "local_only"
    /\ diagnostic' = IF ~probe.fetch_others /\ probe.in_ci THEN EnvironmentHelp
                     ELSE diagnostic
    /\ UNCHANGED <<a_vars, probe, fetched, engine_calls, exit_code, exc, v_vars, c_vars>>

\* run, lines 58-59: `if not is_verified: return 0`
ReturnNotVerified ==
    /\ pc = "local_only"
    /\ exit_code' = "0"
    /\ pc' = "exit"
    /\ UNCHANGED <<a_vars, probe, fetched, engine_calls, exc, diagnostic, v_vars, c_vars>>

\* The methods of the object the orchestrator passes as `schema`:
\* schema_rules.data_schema.BookmarkJsonSchema and its base class.
SchemaMethods ==
    { "_get_default_schema_paths", "_get_fallback_schema", "_load_schema",
      "validate_json_schema", "reload_schema", "get_schema_info", "validate" }

\* What fetch_all_bookmarks can do: raise a transport error (listing the
\* projects or a tree), raise ValueError (a blob that is not YAML, a blob that
\* cannot be fetched), or return the records it collected.
RemoteSamples ==
    LET ok(u) == MkRecord([ name |-> "str", url |-> u, domain |-> "str",
                            category |-> "str", packages |-> "list",
                            meta |-> ABSENT, extra |-> ABSENT ],
                          [ source_project |-> "grp/p1", source_file |-> "b.yml",
                            index |-> 0 ])
        bad(u) == [ok(u) EXCEPT !.name = ABSENT]
    IN { << >>,
         << ok("https://a.example") >>,
         << ok("https://a.example"), ok("https://b.example") >>,
         << ok("https://a.example"), ok("https://a.example") >>,
         << bad("https://a.example") >> }

FetchOutcomes ==
         { [ kind |-> "raise", exc |-> x, records |-> << >> ] :
             x \in {"RequestException", "ValueError"} }
    \cup { [ kind |-> "return", exc |-> "", records |-> rs ] : rs \in RemoteSamples }

\* validate_bookmarks_data, lines 84-121, for one outcome f of the fetch.
\* has_errors is a local that only the except clause and the else branch
\* assign.
ValidateBookmarksDataResult(e, a, f) ==
    LET can_fetch == /\ All({e[CI_SERVER_URL], e[BOOKMARK_DATA_GROUP_ID]})
                     /\ (PyTruthy(has_deploy_token(a)) \/ PyTruthy(has_pat(a)))
        did == IF can_fetch THEN f ELSE NoFetch
        all_bookmarks == IF did.kind = "return" THEN did.records ELSE << >>
        local_has_errors == IF can_fetch /\ did.kind = "return"
                            THEN "unbound" ELSE "True"
        no_token == ~PyTruthy(has_deploy_token(a)) /\ ~PyTruthy(has_pat(a))
        missing_vars ==
            [ emitted |-> TRUE,
              base |-> { v \in {CI_SERVER_URL, BOOKMARK_DATA_GROUP_ID} : ~Truthy(e[v]) },
              pat |-> IF no_token THEN {ENCRYPTED_PAT, PAT_ENCRYPTION_KEY} ELSE {},
              deploy |-> IF no_token
                         THEN {ENCRYPTED_DEPLOY_TOKEN, ENCRYPTION_KEY, DEPLOY_TOKEN_USERNAME}
                         ELSE {} ]
        base == [ fetched |-> did, engine_calls |-> 0, exit_code |-> "none",
                  exc |-> "", pc |-> "raised",
                  diagnostic |-> IF can_fetch THEN NoDiagnostic ELSE missing_vars ]
    IN IF "validate_bookmarks" \notin SchemaMethods
       THEN [base EXCEPT !.exc = "AttributeError"]
       ELSE IF local_has_errors = "unbound"
            THEN [base EXCEPT !.engine_calls = 1, !.exc = "UnboundLocalError"]
            ELSE [base EXCEPT !.engine_calls = 1, !.exit_code = "1", !.pc = "exit"]

\* run, line 62: `return self.validator.validate_bookmarks_data()`
ValidateBookmarksData ==
    /\ pc = "fetch_remote"
    /\ \E f \in FetchOutcomes :
          LET r == ValidateBookmarksDataResult(env, auth, f)
          IN /\ fetched' = r.fetched
             /\ engine_calls' = r.engine_calls
             /\ exit_code' = r.exit_code
             /\ exc' = r.exc
             /\ pc' = r.pc
             /\ diagnostic' = IF r.diagnostic.emitted THEN r.diagnostic ELSE diagnostic
    /\ UNCHANGED <<a_vars, probe, v_vars, c_vars>>

Envs ==
    { e \in [EnvVariables -> {UNSET, EMPTY, GOOD, BAD}] :
        \A v \in EnvVariables : e[v] \in ValuesOf(v) }

\* The project directory of a run: missing, or holding one YAML file with
\* one record.  No step of run reads it: the package never imports
\* loaders/yaml_loader.py.
RunDisks ==
    { NoDisk,
      [ exists |-> TRUE,
        files |-> << [ dir |-> "data", ext |-> ".yml",
                       doc |-> [ open |-> "ok", parse |-> "ok", root |-> "list",
                                 items |-> <<"m">> ] ] >> ] }

Init ==
    /\ env \in Envs
    /\ auth = NotBuilt
    /\ last = NoCall
    /\ OrchestratorIdle
    /\ disk \in RunDisks
    /\ l_out = NoLoad
    /\ group = NoGroup
    /\ r_out = NoRemoteCall
    /\ bookmarks = << >>
    /\ EngineIdle

Next ==
    \/ Construct
    \/ CheckEnvironment
    \/ VerifyEnvironmentStatus
    \/ ReturnNotVerified
    \/ ValidateBookmarksData

Spec == Init /\ [][Next]_vars

-----------------------------------------------------------------------------
(* The local collector: loaders/yaml_loader.py *)

\* What open() and yaml.safe_load() make of a file.  root: "null" an empty
\* document, "falsy" a root that is 0, false, "" or {}, "other" any other
\* root that is not a list, "list" a list whose elements are mappings ("m")
\* or anything else ("s").
Doc(open, parse, root, items) ==
    [ open |-> open, parse |-> parse, root |-> root, items |-> items ]

ItemLists == { << >>, <<"m">>, <<"s">>, <<"m", "s">>, <<"s", "m">> }

Docs ==
         { Doc("error", "ok", "null", << >>), Doc("ok", "error", "null", << >>) }
    \cup { Doc("ok", "ok", r, << >>) : r \in {"null", "falsy", "other"} }
    \cup { Doc("ok", "ok", "list", items) : items \in ItemLists }

\* A file of the walk: the directory os.walk reports as root, the file
\* name's extension, and the document.
Dirs == {"data", "data/.git"}

DiskFiles ==
         { [ dir |-> d, ext |-> ".yml", doc |-> doc ] : d \in Dirs, doc \in Docs }
    \cup { [ dir |-> "data", ext |-> ".txt", doc |-> Doc("ok", "error", "null", << >>) ],
           [ dir |-> "data", ext |-> ".yaml", doc |-> Doc("ok", "ok", "list", <<"m">>) ],
           [ dir |-> "data/.github", ext |-> ".yml",
             doc |-> Doc("ok", "ok", "list", <<"m">>) ] }

\* `'.git' in root`: a substring test on the directory path
ContainsGit(dir) == dir \in {"data/.git", "data/.github"}

\* find_yaml_files: the files of the walk, in walk order, whose name ends in
\* .yml or .yaml and whose directory path does not contain '.git'.  The
\* result lists positions in d.files.
RECURSIVE FindLoop(_, _, _)
FindLoop(files, k, yaml_files) ==
    IF k > Len(files) THEN yaml_files
    ELSE FindLoop(files, k + 1,
             IF files[k].ext \in {".yml", ".yaml"}
             THEN IF ContainsGit(files[k].dir) THEN yaml_files
                  ELSE Append(yaml_files, k)
             ELSE yaml_files)

find_yaml_files(d) == IF ~d.exists THEN << >> ELSE FindLoop(d.files, 1, << >>)

\* load_yaml_file, lines 58-69: the element loop
RECURSIVE ElementLoop(_, _, _, _)
ElementLoop(items, i, yaml_file, acc) ==
    IF i > Len(items) THEN acc
    ELSE ElementLoop(items, i + 1, yaml_file,
             IF items[i] # "m"
             THEN [acc EXCEPT !.has_errors = TRUE]
             ELSE [acc EXCEPT !.bookmarks =
                      Append(@, [ source_project |-> "current",
                                  source_file |-> yaml_file,
                                  index |-> i ])])

\* load_yaml_file of the file at position yaml_file
load_yaml_file(d, yaml_file) ==
    LET doc == d.files[yaml_file].doc
        none == [ bookmarks |-> << >>, has_errors |-> FALSE ]
    IN IF doc.open = "error" THEN [none EXCEPT !.has_errors = TRUE]
       ELSE IF doc.parse = "error" THEN [none EXCEPT !.has_errors = TRUE]
       ELSE IF doc.root \in {"null", "falsy"} \/ (doc.root = "list" /\ doc.items = << >>)
            THEN none
       ELSE IF doc.root # "list" THEN [none EXCEPT !.has_errors = TRUE]
       ELSE ElementLoop(doc.items, 1, yaml_file, none)

\* A file loop that gives up at the first file with an error.
RECURSIVE FileLoop_StopAtError(_, _, _, _)
FileLoop_StopAtError(d, yaml_files, n, acc) ==
    IF n > Len(yaml_files) THEN acc
    ELSE LET r == load_yaml_file(d, yaml_files[n])
         IN IF r.has_errors
            THEN [ bookmarks |-> acc.bookmarks \o r.bookmarks, has_errors |-> TRUE ]
            ELSE FileLoop_StopAtError(d, yaml_files, n + 1,
                     [ bookmarks |-> acc.bookmarks \o r.bookmarks,
                       has_errors |-> acc.has_errors ])

\* load_current_project_yaml_files, lines 100-103: the file loop
RECURSIVE FileLoop(_, _, _, _)
FileLoop(d, yaml_files, n, acc) ==
    IF n > Len(yaml_files) THEN acc
    ELSE LET r == load_yaml_file(d, yaml_files[n])
         IN FileLoop(d, yaml_files, n + 1,
                [ bookmarks |-> acc.bookmarks \o r.bookmarks,
                  has_errors |-> acc.has_errors \/ r.has_errors ])

load_current_project_yaml_files(d) ==
    LET yaml_files == find_yaml_files(d)
    IN FileLoop(d, yaml_files, 1, [ bookmarks |-> << >>, has_errors |-> FALSE ])

FindYamlFiles ==
    /\ l_out = NoLoad
    /\ l_out' = [ op |-> "find_yaml_files", file |-> 0,
                  yaml_files |-> find_yaml_files(disk),
                  bookmarks |-> << >>, has_errors |-> FALSE ]
    /\ UNCHANGED <<disk, r_vars, v_vars, a_vars, o_vars>>

LoadYamlFile ==
    /\ l_out = NoLoad
    /\ \E k \in 1..Len(disk.files) :
          LET r == load_yaml_file(disk, k)
          IN l_out' = [ op |-> "load_yaml_file", file |-> k, yaml_files |-> << >>,
                        bookmarks |-> r.bookmarks, has_errors |-> r.has_errors ]
    /\ UNCHANGED <<disk, r_vars, v_vars, a_vars, o_vars>>

LoadCurrentProjectYamlFiles ==
    /\ l_out = NoLoad
    /\ LET r == load_current_project_yaml_files(disk)
       IN l_out' = [ op |-> "load_current_project_yaml_files", file |-> 0,
                     yaml_files |-> find_yaml_files(disk),
                     bookmarks |-> r.bookmarks, has_errors |-> r.has_errors ]
    /\ UNCHANGED <<disk, r_vars, v_vars, a_vars, o_vars>>

Disks ==
         { NoDisk }
    \cup { [ exists |-> TRUE, files |-> fs ] : fs \in SeqsUpTo(DiskFiles, MaxFiles) }

InitLocal ==
    /\ disk \in Disks
    /\ l_out = NoLoad
    /\ group = NoGroup
    /\ r_out = NoRemoteCall
    /\ bookmarks = << >>
    /\ EngineIdle
    /\ env = [v \in EnvVariables |-> UNSET]
    /\ auth = NotBuilt
    /\ last = NoCall
    /\ OrchestratorIdle

NextLocal ==
    \/ FindYamlFiles
    \/ LoadYamlFile
    \/ LoadCurrentProjectYamlFiles

SpecLocal == InitLocal /\ [][NextLocal]_vars

-----------------------------------------------------------------------------
(* The remote collector: gitlab_client.py, gitlab_fetcher.py *)

\* What yaml.safe_load makes of a fetched document.  The elements of a list
\* root: "u" a mapping with a url key, "m" a mapping without one, "s"
\* anything that is not a mapping.
RemoteDoc(parse, root, items) == [ parse |-> parse, root |-> root, items |-> items ]

RemoteDocs ==
    { RemoteDoc("error", "null", << >>),
      RemoteDoc("ok", "null", << >>),
      RemoteDoc("ok", "other", << >>),
      RemoteDoc("ok", "list", <<"u">>),
      RemoteDoc("ok", "list", <<"s", "u">>),
      RemoteDoc("ok", "list", <<"m">>),
      RemoteDoc("ok", "list", <<"m", "u">>) }

\* An entry of a recursive tree listing: a directory ("tree") or a file
\* ("blob") with its path's extension, whether the raw-content request for
\* it succeeds, and the document it holds.
Entry(type, ext, raw, doc) == [ type |-> type, ext |-> ext, raw |-> raw, doc |-> doc ]

YamlBlob(doc) == Entry("blob", ".yml", "ok", doc)

Entries ==
         { Entry("tree", "", "ok", RemoteDoc("ok", "null", << >>)),
           Entry("blob", ".txt", "ok", RemoteDoc("error", "null", << >>)),
           Entry("blob", ".yml", "error", RemoteDoc("ok", "null", << >>)) }
    \cup { YamlBlob(doc) : doc \in RemoteDocs }

\* A project of the group: its path_with_namespace (only whether it ends in
\* 'data-validator' matters), whether the tree request succeeds, the tree.
Project(path, tree, entries) == [ path |-> path, tree |-> tree, entries |-> entries ]

IsYamlPath(ext) == ext \in {".yml", ".yaml"}

\* ApiConstants.PER_PAGE_DEFAULT, the per_page parameter of both listings
PER_PAGE_DEFAULT == 100

\* What one GET of a listing answers when no page parameter is sent: the
\* first per_page elements.  The result lists positions in the listing.
FirstPage(listing) ==
    [ k \in 1..(IF Len(listing) < PER_PAGE_DEFAULT THEN Len(listing)
                ELSE PER_PAGE_DEFAULT) |-> k ]

\* The paths projects of the model have
ProjectPaths == {"grp/p", "grp/data-validator", "grp/sub/my-data-validator"}

\* path_with_namespace.endswith('data-validator')
EndsWithValidator(path) == path \in {"grp/data-validator", "grp/sub/my-data-validator"}

\* fetch_group_projects: the listing request, then the filter on the path
\* suffix.  The result lists positions in g.projects.
fetch_group_projects(g) ==
    IF g.listing = "error"
    THEN [ outcome |-> "raise", exc |-> "RequestException", value |-> << >>,
           requests |-> << <<"projects">> >> ]
    ELSE [ outcome |-> "return", exc |-> "",
           value |-> SelectSeq(FirstPage(g.projects),
                               LAMBDA k : ~EndsWithValidator(g.projects[k].path)),
           requests |-> << <<"projects">> >> ]

\* fetch_project_yaml_files_content, lines 63-87: the loop over the listing
RECURSIVE BlobLoop(_, _, _, _)
BlobLoop(entries, project_id, n, acc) ==
    IF n > Len(entries) THEN acc
    ELSE IF ~(entries[n].type = "blob" /\ IsYamlPath(entries[n].ext))
         THEN [acc EXCEPT !.outcome = "raise", !.exc = "ValueError", !.value = << >>]
         ELSE LET asked == [acc EXCEPT !.requests =
                               Append(@, <<"raw", project_id, n, "main">>)]
              IN IF entries[n].raw = "error"
                 THEN [asked EXCEPT !.outcome = "raise", !.exc = "ValueError",
                                    !.value = << >>]
                 ELSE BlobLoop(entries, project_id, n + 1,
                          [asked EXCEPT !.value =
                              Append(@, [ path |-> n, content |-> entries[n].doc,
                                          project_id |-> project_id,
                                          project_path_for_log |-> project_id ])])

\* fetch_project_yaml_files_content for the project at position project_id
fetch_project_yaml_files_content(g, project_id) ==
    LET p == g.projects[project_id]
        start == [ outcome |-> "return", exc |-> "", value |-> << >>,
                   requests |-> << <<"tree", project_id>> >> ]
    IN IF p.tree = "error"
       THEN [start EXCEPT !.outcome = "raise", !.exc = "RequestException"]
       ELSE BlobLoop(SubSeq(p.entries, 1, Len(FirstPage(p.entries))),
                     project_id, 1, start)

\* fetch_all_yaml_files_from_group, lines 96-103: the loop over the projects
RECURSIVE ProjectLoop(_, _, _, _)
ProjectLoop(g, projects, n, acc) ==
    IF n > Len(projects) THEN acc
    ELSE LET files_content == fetch_project_yaml_files_content(g, projects[n])
             asked == acc.requests \o files_content.requests
         IN IF files_content.outcome = "raise"
            THEN [ outcome |-> "raise", exc |-> files_content.exc, value |-> << >>,
                   requests |-> asked ]
            ELSE ProjectLoop(g, projects, n + 1,
                     [acc EXCEPT !.value = @ \o files_content.value,
                                 !.requests = asked])

fetch_all_yaml_files_from_group(g) ==
    LET projects == fetch_group_projects(g)
    IN IF projects.outcome = "raise" THEN projects
       ELSE ProjectLoop(g, projects.value, 1,
                [projects EXCEPT !.value = << >>])

\* A collector that retains every mapping, with a url key or without
ItemsOf_AnyMapping(file_data) ==
    LET items == file_data.content.items
        at == SelectSeq([i \in 1..Len(items) |-> i], LAMBDA i : items[i] \in {"u", "m"})
    IN [ j \in 1..Len(at) |->
           [ source_project |-> file_data.project_path_for_log,
             source_file |-> file_data.path, item |-> at[j] ] ]

\* fetch_all_bookmarks, lines 133-138: the elements of one parsed document
\* that are mappings with a url, tagged with project and file
ItemsOf(file_data) ==
    LET items == file_data.content.items
        at == SelectSeq([i \in 1..Len(items) |-> i], LAMBDA i : items[i] = "u")
    IN [ j \in 1..Len(at) |->
           [ source_project |-> file_data.project_path_for_log,
             source_file |-> file_data.path, item |-> at[j] ] ]

\* A parse loop whose try encloses the loop: the first document that does
\* not parse ends the collection.
RECURSIVE ParseLoop_StopAtBadDoc(_, _, _)
ParseLoop_StopAtBadDoc(all_yaml_files, n, all_bookmarks) ==
    IF n > Len(all_yaml_files) THEN all_bookmarks
    ELSE LET yaml_content == all_yaml_files[n].content
         IN IF yaml_content.parse = "error" THEN all_bookmarks
            ELSE ParseLoop_StopAtBadDoc(all_yaml_files, n + 1,
                     IF yaml_content.root # "list" THEN all_bookmarks
                     ELSE all_bookmarks \o ItemsOf(all_yaml_files[n]))

\* fetch_all_bookmarks, lines 122-145: the loop over the fetched documents;
\* a YAMLError is caught inside the loop body.
RECURSIVE ParseLoop(_, _, _)
ParseLoop(all_yaml_files, n, all_bookmarks) ==
    IF n > Len(all_yaml_files) THEN all_bookmarks
    ELSE LET yaml_content == all_yaml_files[n].content
         IN ParseLoop(all_yaml_files, n + 1,
                IF yaml_content.parse = "error" THEN all_bookmarks
                ELSE IF yaml_content.root # "list" THEN all_bookmarks
                ELSE all_bookmarks \o ItemsOf(all_yaml_files[n]))

fetch_all_bookmarks(g) ==
    LET all_yaml_files == fetch_all_yaml_files_from_group(g)
    IN IF all_yaml_files.outcome = "raise" THEN all_yaml_files
       ELSE [all_yaml_files EXCEPT !.value = ParseLoop(all_yaml_files.value, 1, << >>)]

RemoteCall(op, project, r) ==
    [ op |-> op, project |-> project, outcome |-> r.outcome, exc |-> r.exc,
      value |-> r.value, requests |-> r.requests ]

FetchGroupProjects ==
    /\ r_out = NoRemoteCall
    /\ r_out' = RemoteCall("fetch_group_projects", 0, fetch_group_projects(group))
    /\ UNCHANGED <<group, l_vars, v_vars, a_vars, o_vars>>

FetchProjectYamlFilesContent ==
    /\ r_out = NoRemoteCall
    /\ \E k \in 1..Len(group.projects) :
          r_out' = RemoteCall("fetch_project_yaml_files_content", k,
                              fetch_project_yaml_files_content(group, k))
    /\ UNCHANGED <<group, l_vars, v_vars, a_vars, o_vars>>

FetchAllBookmarks ==
    /\ r_out = NoRemoteCall
    /\ r_out' = RemoteCall("fetch_all_bookmarks", 0, fetch_all_bookmarks(group))
    /\ UNCHANGED <<group, l_vars, v_vars, a_vars, o_vars>>

\* The rest of the state while the remote collector is looked at alone
RemoteAlone ==
    /\ r_out = NoRemoteCall
    /\ disk = NoDisk
    /\ l_out = NoLoad
    /\ bookmarks = << >>
    /\ EngineIdle
    /\ env = [v \in EnvVariables |-> UNSET]
    /\ auth = NotBuilt
    /\ last = NoCall
    /\ OrchestratorIdle

\* One project with any tree of up to MaxEntries entries
InitTree ==
    /\ group \in { [ listing |-> "ok", projects |-> << Project("grp/p", t, es) >> ] :
                      t \in {"ok", "error"}, es \in SeqsUpTo(Entries, MaxEntries) }
    /\ RemoteAlone

NextTree == FetchProjectYamlFilesContent

SpecTree == InitTree /\ [][NextTree]_vars

\* The projects a group is made of
ProjectSamples ==
    LET one == YamlBlob(RemoteDoc("ok", "list", <<"u">>))
        mixed == YamlBlob(RemoteDoc("ok", "list", <<"s", "u">>))
        broken == YamlBlob(RemoteDoc("error", "null", << >>))
        scalar == YamlBlob(RemoteDoc("ok", "other", << >>))
    IN { Project("grp/p", "ok", << one >>),
         Project("grp/p", "ok", << broken, mixed >>),
         Project("grp/p", "ok", << scalar, one >>),
         Project("grp/p", "ok", << >>),
         Project("grp/p", "ok", << YamlBlob(RemoteDoc("ok", "list", <<"m", "u">>)) >>),
         Project("grp/p", "error", << >>),
         Project("grp/p", "ok", << one, Entry("blob", ".txt", "ok",
                                            RemoteDoc("error", "null", << >>)) >>),
         Project("grp/p", "ok", << Entry("blob", ".yml", "error",
                                       RemoteDoc("ok", "null", << >>)), one >>),
         Project("grp/p", "ok", << Entry("tree", "", "ok",
                                       RemoteDoc("ok", "null", << >>)), one >>),
         Project("grp/data-validator", "ok", << one >>),
         Project("grp/sub/my-data-validator", "ok", << one >>) }

\* Groups about as large as a page of the listing: every project holds one
\* document with one record; the first and the last project may be validator
\* projects.
GroupSizes ==
    0..MaxProjects \cup (PER_PAGE_DEFAULT - 1)..(PER_PAGE_DEFAULT + MaxProjects - 1)

LargeGroup(n, p1, pn) ==
    [ k \in 1..n |->
        Project(IF k = 1 THEN p1 ELSE IF k = n THEN pn ELSE "grp/p", "ok",
                << YamlBlob(RemoteDoc("ok", "list", <<"u">>)) >>) ]

InitPages ==
    /\ group \in { [ listing |-> l, projects |-> LargeGroup(n, p1, pn) ] :
                      l \in {"ok", "error"}, n \in GroupSizes,
                      p1 \in ProjectPaths, pn \in ProjectPaths }
    /\ RemoteAlone

NextPages == FetchGroupProjects

SpecPages == InitPages /\ [][NextPages]_vars

InitRemote ==
    /\ group \in { [ listing |-> l, projects |-> ps ] :
                      l \in {"ok", "error"},
                      ps \in SeqsUpTo(ProjectSamples, MaxProjects) }
    /\ RemoteAlone

NextRemote ==
    \/ FetchGroupProjects
    \/ FetchProjectYamlFilesContent
    \/ FetchAllBookmarks

SpecRemote == InitRemote /\ [][NextRemote]_vars

-----------------------------------------------------------------------------
(* Claims about the validation engine *)

Positions == 1..Len(bookmarks)
WithUrl == { i \in Positions : bookmarks[i].url # ABSENT }
SameUrl(i, j) == bookmarks[i].url # ABSENT /\ bookmarks[i].url = bookmarks[j].url
HasDuplicateUrl == \E i, j \in Positions : i < j /\ SameUrl(i, j)
DupFlagged(i) == \E k \in DOMAIN dup_log : dup_log[k].pos = i

\* C1: whenever validate returns on a sequence in which two records, from
\* whatever sources, carry the same url, it returns has_errors = TRUE; and on
\* a sequence whose urls are pairwise distinct the duplicate check logs
\* nothing.
C1_DuplicateUrlFails ==
    v_pc = "returned" =>
        /\ HasDuplicateUrl => has_errors
        /\ ~HasDuplicateUrl => dup_log = << >>

\* A local and a remote record share a url, every record passes the schema,
\* and validate returned has_errors = TRUE.
C1_Witness ==
    /\ v_pc = "returned"
    /\ has_errors
    /\ schema_log = << >>
    /\ \E i, j \in Positions :
          /\ i < j /\ SameUrl(i, j)
          /\ bookmarks[i].source_project = "current"
          /\ bookmarks[j].source_project # "current"

\* C2: first-wins in merge order.  When validate returns, record i has a
\* duplicate violation iff an earlier record has the same url; each violation
\* carries the location and url of the record it flags; and the number of
\* violations is (records with a url) - (distinct urls).
C2_FirstWins ==
    v_pc = "returned" =>
        /\ \A i \in Positions :
              DupFlagged(i) <=> \E j \in Positions : j < i /\ SameUrl(j, i)
        /\ \A k \in DOMAIN dup_log :
              /\ dup_log[k].location = Location(bookmarks[dup_log[k].pos])
              /\ dup_log[k].url = bookmarks[dup_log[k].pos].url
        /\ \A k, m \in DOMAIN dup_log : k < m => dup_log[k].pos < dup_log[m].pos
        /\ Len(dup_log) = Cardinality(WithUrl)
                          - Cardinality({ bookmarks[i].url : i \in WithUrl })

\* Three records with one url: the second and the third are flagged, each at
\* its own location, the first is not.
C2_Witness ==
    /\ v_pc = "returned"
    /\ Len(bookmarks) = 3
    /\ SameUrl(1, 2) /\ SameUrl(2, 3)
    /\ Location(bookmarks[1]) # Location(bookmarks[2])
    /\ Len(dup_log) = 2
    /\ dup_log[1].pos = 2 /\ dup_log[2].pos = 3

\* What the schema check is to look at: the fields of the source document,
\* without the provenance the collector attached.
Payload(b) ==
    [ name |-> b.name, url |-> b.url, domain |-> b.domain,
      category |-> b.category, packages |-> b.packages, meta |-> b.meta,
      extra |-> b.extra, leftover |-> {} ]

Defective(i) == SchemaDefects(Payload(bookmarks[i])) # {}
SchemaFlagged(i) == \E k \in DOMAIN schema_log : schema_log[k].pos = i

TheRecord == bookmarks[1]
OneRecordReturned == v_pc = "returned" /\ Len(bookmarks) = 1

\* Valid but for its packages: the four string fields are strings, meta is
\* absent or a mapping, and there is no further top-level key.
ValidButPackages(b) ==
    /\ \A f \in {"name", "url", "domain", "category"} : IsString(b[f])
    /\ b.meta = ABSENT \/ IsObject(b.meta)
    /\ b.extra = ABSENT

\* C13: the schema check rejects a record without packages, a record whose
\* packages is not a sequence, and a record without name, url, domain or
\* category; it accepts an otherwise valid record whose packages is the
\* empty sequence.
C13_SchemaCompleteness ==
    OneRecordReturned =>
        /\ TheRecord.packages = ABSENT => has_errors
        /\ (TheRecord.packages # ABSENT /\ ~IsArray(TheRecord.packages)) => has_errors
        /\ \A f \in {"name", "url", "domain", "category"} :
              TheRecord[f] = ABSENT => has_errors
        /\ (ValidButPackages(TheRecord) /\ TheRecord.packages = "[]") => ~has_errors

\* A record that lacks nothing but packages was rejected, with one schema
\* violation at its location.
C13_Witness ==
    /\ OneRecordReturned
    /\ ValidButPackages(TheRecord)
    /\ TheRecord.packages = ABSENT
    /\ has_errors
    /\ Len(schema_log) = 1
    /\ schema_log[1].location = Location(TheRecord)

\* C14: a record whose source document carries a top-level key outside
\* {name, url, domain, category, packages, meta} gets a schema violation,
\* whatever the key is called; an otherwise valid record whose meta is a
\* mapping, flat or nested, is accepted.
C14_UndeclaredFields ==
    OneRecordReturned =>
        /\ TheRecord.extra # ABSENT => SchemaFlagged(1) /\ has_errors
        /\ ( /\ ValidButPackages(TheRecord)
             /\ IsArray(TheRecord.packages) /\ TheRecord.packages # "[str]"
             /\ IsObject(TheRecord.meta) ) => ~has_errors

SameProvenance(i, j) ==
    /\ bookmarks[i].source_project = bookmarks[j].source_project
    /\ bookmarks[i].source_file = bookmarks[j].source_file
    /\ bookmarks[i].index = bookmarks[j].index

\* urlparse(url).netloc of the urls of the model
Host(url) ==
    CASE url = "https://a.example" -> "a.example"
      [] url = "https://b.example" -> "b.example"
      [] OTHER -> ""

\* Record i has a url and a domain, both strings, and the domain is not the
\* host of the url
DomainMismatch(i) ==
    /\ bookmarks[i].url \in Urls
    /\ bookmarks[i].domain # ABSENT /\ IsString(bookmarks[i].domain)
    /\ bookmarks[i].domain # Host(bookmarks[i].url)

\* C24: validate enforces domain-host consistency: when a record's domain
\* differs from the host of its url, the call returns has_errors = TRUE; a
\* record whose domain is the host of its url, and that has no other defect
\* and no duplicate, is not reported.
C24_DomainHostChecked ==
    v_pc = "returned" =>
        /\ (\E i \in Positions : DomainMismatch(i)) => has_errors
        /\ \A i \in Positions :
              ( /\ bookmarks[i].url \in Urls
                /\ bookmarks[i].domain = Host(bookmarks[i].url)
                /\ ~Defective(i) ) => ~SchemaFlagged(i)

\* C29: validation never throws.  Whatever the types of the field values of
\* the records, a url that is a list included, every call of validate
\* returns, and a record with a value of the wrong type makes it return
\* has_errors = TRUE with a violation at that record.
C29_NeverThrows ==
    v_pc # "idle" =>
        /\ v_pc = "returned"
        /\ \A i \in Positions :
              (bookmarks[i].url # ABSENT /\ ~IsString(bookmarks[i].url))
                  => has_errors /\ SchemaFlagged(i)

\* The schema violations logged at record i
ViolationsAt(i) == { k \in DOMAIN schema_log : schema_log[k].pos = i }

\* C30: all structural defects of a record surface in the same pass.  After
\* one call of validate, the violations logged at a record are as many as
\* the record's independent schema defects (a missing required field, a
\* value of the wrong type, an undeclared field), not just one.
C30_AllDefectsSurface ==
    v_pc = "returned" =>
        \A i \in Positions :
            Cardinality(ViolationsAt(i)) =
                Cardinality(SchemaDefects(Payload(bookmarks[i])))

\* C15: provenance does not influence the structural verdict.  When
\* validate returns, two records with the same payload get the same schema
\* verdict whatever their provenance, and a record whose payload is valid
\* gets no schema violation although it carries the provenance keys.
C15_ProvenanceBlind ==
    v_pc = "returned" =>
        /\ \A i, j \in Positions :
              Payload(bookmarks[i]) = Payload(bookmarks[j])
                  => (SchemaFlagged(i) <=> SchemaFlagged(j))
        /\ \A i \in Positions : ~Defective(i) => ~SchemaFlagged(i)

\* Two records with one valid payload, one collected locally (with an index)
\* and one remotely, both accepted by the schema check; and a third, invalid
\* one, rejected.
C15_Witness ==
    /\ v_pc = "returned"
    /\ Len(bookmarks) = 3
    /\ Payload(bookmarks[1]) = Payload(bookmarks[2])
    /\ ~SameProvenance(1, 2)
    /\ bookmarks[1].source_project = "current" /\ bookmarks[1].index > 0
    /\ ~Defective(1)
    /\ ~SchemaFlagged(1) /\ ~SchemaFlagged(2)
    /\ SchemaFlagged(3)

-----------------------------------------------------------------------------
(* Claims about the credential resolver *)

PatComplete == All({auth.encrypted_pat, auth.pat_encryption_key})
DeployComplete ==
    All({auth.encrypted_deploy_token, auth.deploy_token_encryption_key,
         auth.deploy_token_username})
PatDecrypts ==
    PatComplete /\ auth.pat_encryption_key = GOOD /\ auth.encrypted_pat = GOOD
DeployDecrypts ==
    /\ DeployComplete
    /\ auth.deploy_token_encryption_key = GOOD
    /\ auth.encrypted_deploy_token = GOOD

\* No cipher was built and no decrypt was called for this credential kind.
Untouched(kind) == \A k \in DOMAIN last.events : last.events[k][2] # kind

Returned(value) == last.outcome = "return" /\ last.value = value
Raised(ex) == last.outcome = "raise" /\ last.exc = ex /\ last.value = ""

\* C7: the fallback order of get_api_auth_headers.  With the deploy kind
\* complete and the personal-access kind not, no personal-access cipher
\* operation happens, the result is never a Private-Token credential, and it
\* is the Basic credential whenever the deploy token decrypts.  With both
\* kinds complete and decrypting, the result is the Private-Token credential
\* and the deploy kind is not touched.
C7_FallbackOrder ==
    last.op = "get_api_auth_headers" =>
        /\ (DeployComplete /\ ~PatComplete) =>
              /\ Untouched("pat")
              /\ last.value # "Private-Token"
              /\ DeployDecrypts => Returned("Basic")
        /\ (PatDecrypts /\ DeployDecrypts) =>
              /\ Returned("Private-Token")
              /\ Untouched("deploy")

\* Only the deploy variables are set: the call returned the Basic credential
\* after deploy cipher operations only.
C7_Witness ==
    /\ last.op = "get_api_auth_headers"
    /\ auth.encrypted_pat = UNSET /\ auth.pat_encryption_key = UNSET
    /\ DeployDecrypts
    /\ Returned("Basic")
    /\ last.events = << <<"TokenCipher", "deploy">>, <<"decrypt", "deploy">> >>

\* C8: with the personal-access inputs complete but not decrypting,
\* get_api_auth_headers first fails on the personal-access kind, then returns
\* the Basic credential if the deploy kind is complete and decrypts, and
\* otherwise raises ValueError and returns nothing.
C8_DecryptFailureFallsBack ==
    (last.op = "get_api_auth_headers" /\ PatComplete /\ ~PatDecrypts) =>
        /\ ~Untouched("pat")
        /\ last.events[1] = <<"TokenCipher", "pat">>
        /\ DeployDecrypts => Returned("Basic")
        /\ ~DeployDecrypts => Raised("ValueError")

\* The personal-access ciphertext does not decrypt under a valid key, the
\* deploy kind does: decrypt was called for both, and Basic came back.
C8_Witness ==
    /\ last.op = "get_api_auth_headers"
    /\ auth.pat_encryption_key = GOOD /\ auth.encrypted_pat = BAD
    /\ DeployDecrypts
    /\ Returned("Basic")
    /\ \E k \in DOMAIN last.events : last.events[k] = <<"decrypt", "pat">>
    /\ \E k \in DOMAIN last.events : last.events[k] = <<"decrypt", "deploy">>

\* C9: get_general_auth_headers never gives the Private-Token credential and
\* never touches the personal-access kind: it returns Basic when the deploy
\* inputs are complete and decrypt and raises ValueError otherwise.  Asking
\* for a kind whose variables are missing raises ValueError before any cipher
\* operation.
C9_GeneralIsDeployOnly ==
    /\ last.op = "get_general_auth_headers" =>
          /\ last.value # "Private-Token"
          /\ Untouched("pat")
          /\ DeployDecrypts => Returned("Basic")
          /\ ~DeployDecrypts => Raised("ValueError")
    /\ (last.op \in {"get_general_auth_headers", "get_deploy_token_headers"}
        /\ ~DeployComplete) =>
          Raised("ValueError") /\ last.events = << >>
    /\ (last.op = "get_pat_headers" /\ ~PatComplete) =>
          Raised("ValueError") /\ last.events = << >>

\* The personal-access kind is complete and would decrypt, the deploy kind is
\* incomplete: the general resolver raised without any cipher operation.
C9_Witness ==
    /\ last.op = "get_general_auth_headers"
    /\ PatDecrypts
    /\ ~DeployComplete
    /\ Raised("ValueError")
    /\ last.events = << >>

\* C10: has_pat returns True exactly when ENCRYPTED_PAT and
\* PAT_ENCRYPTION_KEY are both set and non-empty, and False otherwise;
\* has_deploy_token likewise for its three variables; neither performs a
\* cipher operation.
C10_PresenceChecks ==
    /\ last.op = "has_pat" =>
          /\ last.value = IF All({env[ENCRYPTED_PAT], env[PAT_ENCRYPTION_KEY]})
                          THEN "True" ELSE "False"
          /\ last.events = << >>
    /\ last.op = "has_deploy_token" =>
          /\ last.value = IF All({env[ENCRYPTED_DEPLOY_TOKEN], env[ENCRYPTION_KEY],
                                  env[DEPLOY_TOKEN_USERNAME]})
                          THEN "True" ELSE "False"
          /\ last.events = << >>

-----------------------------------------------------------------------------
(* Claims about the orchestrator *)

EnvPatComplete == All({env[ENCRYPTED_PAT], env[PAT_ENCRYPTION_KEY]})
EnvDeployComplete ==
    All({env[ENCRYPTED_DEPLOY_TOKEN], env[ENCRYPTION_KEY], env[DEPLOY_TOKEN_USERNAME]})

Routed == pc \in {"fetch_remote", "local_only"}

\* run was entered and is over: it returned an exit code or an exception left
\* it (only the FETCH_REMOTE route can raise).
RunEnded == pc = "exit" \/ (pc = "raised" /\ probe.fetch_others)

\* C3: PROBE_ENVIRONMENT routes to FETCH_REMOTE iff CI is present,
\* CI_SERVER_URL and BOOKMARK_DATA_GROUP_ID are set, and the personal-access
\* kind or the deploy kind is fully present; otherwise to LOCAL_ONLY.
C3_ProbeRouting ==
    Routed =>
        (pc = "fetch_remote" <=>
            /\ env[CI] # UNSET
            /\ Truthy(env[CI_SERVER_URL])
            /\ Truthy(env[BOOKMARK_DATA_GROUP_ID])
            /\ (EnvPatComplete \/ EnvDeployComplete))

\* C4: no run reaches an exit code without the validation engine having been
\* invoked, and every run ends with an exit code (PASS or FAIL).
C4_ValidateNeverSkipped ==
    /\ exit_code # "none" => engine_calls > 0
    /\ RunEnded => exit_code \in {"0", "1"}

\* C5: a run ends with exit code 1 iff the remote fetch threw or the records
\* collected have a violation, and with exit code 0 otherwise.
C5_ExitCode ==
    RunEnded =>
        exit_code = IF \/ fetched.kind = "raise"
                       \/ ValidateResult(fetched.records).has_errors
                    THEN "1" ELSE "0"

\* C6: no collection-layer exception (credential resolution, transport,
\* blob fetch, upstream inconsistency) leaves the constructor or run; a run
\* whose fetch threw ends with exit code 1.
C6_CollectionErrorsCaught ==
    /\ pc = "raised" => exc \notin {"ValueError", "RequestException"}
    /\ (RunEnded /\ fetched.kind = "raise") => exit_code = "1"

\* C11: a run that the probe routes to LOCAL_ONLY performs no cipher
\* operation and no remote request, construction included; it validates the
\* local records and, when they are valid, exits 0; and with nothing set in
\* the environment (a non-CI run without remote configuration) the run is not
\* ended by an exception.
LocalOnlyRun == pc = "local_only" \/ (pc = "exit" /\ ~probe.fetch_others)

C11_LocalOnlyIsOffline ==
    /\ LocalOnlyRun => last.events = << >> /\ fetched = NoFetch
    /\ (LocalOnlyRun /\ pc = "exit") => exit_code = "0" /\ engine_calls > 0
    /\ (\A v \in EnvVariables : env[v] = UNSET) => pc # "raised"

\* C23: in a run that collects from the group, the sequence handed to the
\* validation engine is the local records, in file and document order,
\* followed by the remote records in collection order: nothing dropped,
\* reordered or deduplicated, so that its length is the sum of both.
C23_PureConcatenation ==
    (RunEnded /\ probe.fetch_others /\ fetched.kind = "return") =>
        /\ engine_calls > 0
        /\ bookmarks = load_current_project_yaml_files(disk).bookmarks \o fetched.records
        /\ Len(bookmarks) = Len(load_current_project_yaml_files(disk).bookmarks)
                                + Len(fetched.records)

\* The variables the diagnostic named
Named == diagnostic.base \cup diagnostic.pat \cup diagnostic.deploy

\* C26: a run routed to LOCAL_ONLY in CI has logged a diagnostic that names a
\* variable iff that variable is missing (unset or empty), each in its
\* bucket, and never a variable that is set; a run outside CI logs no such
\* diagnostic.
C26_DiagnosticNamesMissing ==
    LocalOnlyRun =>
        IF probe.in_ci
        THEN /\ diagnostic.emitted
             /\ \A v \in EnvVariables \ {CI} : v \in Named <=> ~Truthy(env[v])
             /\ diagnostic.base \subseteq {CI_SERVER_URL, BOOKMARK_DATA_GROUP_ID}
             /\ diagnostic.pat \subseteq {ENCRYPTED_PAT, PAT_ENCRYPTION_KEY}
             /\ diagnostic.deploy \subseteq
                    {ENCRYPTED_DEPLOY_TOKEN, ENCRYPTION_KEY, DEPLOY_TOKEN_USERNAME}
        ELSE ~diagnostic.emitted

\* C25: a run outside CI whose project directory yields no record, and in
\* which no remote fetch takes place, ends with exit code 0: the absence of
\* data is not an error.
C25_NoDataIsNoError ==
    ( /\ env[CI] = UNSET
      /\ load_current_project_yaml_files(disk).bookmarks = << >>
      /\ pc \in {"exit", "raised"} )
        => fetched = NoFetch /\ exit_code = "0"

-----------------------------------------------------------------------------
(* Claims about the local collector *)

LoadedAll == l_out.op = "load_current_project_yaml_files"

\* The YAML files the walk found, as positions in disk.files
FoundFiles == find_yaml_files(disk)

DocOf(k) == disk.files[k].doc
Parses(k) == DocOf(k).open = "ok" /\ DocOf(k).parse = "ok"

\* The records file k is to contribute: one per mapping element of a list
\* root, tagged with the file and the element's 1-based position.
RecordsOf(k) ==
    IF ~(Parses(k) /\ DocOf(k).root = "list") THEN << >>
    ELSE LET items == DocOf(k).items
             at == SelectSeq([i \in 1..Len(items) |-> i], LAMBDA i : items[i] = "m")
         IN [ j \in 1..Len(at) |->
                [ source_project |-> "current", source_file |-> k, index |-> at[j] ] ]

RECURSIVE RecordsOfAll(_, _)
RecordsOfAll(found, n) ==
    IF n > Len(found) THEN << >>
    ELSE RecordsOf(found[n]) \o RecordsOfAll(found, n + 1)

\* A file is flagged for a read error, a syntax error, a root that is not a
\* sequence (an empty document is no error), or a non-mapping element.
FileFlagged(k) ==
    \/ DocOf(k).open = "error"
    \/ DocOf(k).parse = "error"
    \/ Parses(k) /\ DocOf(k).root = "other"
    \/ Parses(k) /\ DocOf(k).root = "list"
         /\ \E i \in DOMAIN DocOf(k).items : DocOf(k).items[i] # "m"

C27_RootShape ==
    LET k == l_out.file
    IN (l_out.op = "load_yaml_file" /\ Parses(k)) =>
          /\ l_out.bookmarks = RecordsOf(k)
          /\ l_out.has_errors <=>
                \/ DocOf(k).root \in {"falsy", "other"}
                \/ /\ DocOf(k).root = "list"
                   /\ \E i \in DOMAIN DocOf(k).items : DocOf(k).items[i] # "m"

\* Some segment of the directory path is the name '.git'
HasGitSegment(dir) == dir \in {"data/.git"}

\* The files the walk is to select, as positions in disk.files
Selected ==
    SelectSeq([k \in 1..Len(disk.files) |-> k],
              LAMBDA k : /\ disk.files[k].ext \in {".yml", ".yaml"}
                         /\ ~HasGitSegment(disk.files[k].dir))

\* C28: the walk selects a file iff its name ends in .yml or .yaml and no
\* segment of its directory path is '.git'; a YAML file under a directory
\* whose name only contains '.git', such as '.github', is selected.
C28_WalkSelection ==
    (l_out.op = "find_yaml_files" /\ disk.exists) => l_out.yaml_files = Selected

-----------------------------------------------------------------------------
(* Claims about the remote collector *)

FetchedAll == r_out.op = "fetch_all_bookmarks"
FetchedTree == r_out.op = "fetch_project_yaml_files_content"

\* The projects of the group left after self-exclusion, as positions
Listed == fetch_group_projects(group).value

EntriesOf(k) == group.projects[k].entries
IsBlob(e) == e.type = "blob"

\* Project k cannot be collected: its tree request fails, one of its blobs
\* is not a YAML file, or the content of one of its YAML blobs cannot be
\* fetched.
ProjectFails(k) ==
    \/ group.projects[k].tree = "error"
    \/ \E n \in DOMAIN EntriesOf(k) :
          /\ IsBlob(EntriesOf(k)[n])
          /\ ~IsYamlPath(EntriesOf(k)[n].ext) \/ EntriesOf(k)[n].raw = "error"

\* Every entry of project k is a YAML blob whose content is served
AllServed(k) ==
    /\ group.projects[k].tree = "ok"
    /\ \A n \in DOMAIN EntriesOf(k) :
          /\ IsBlob(EntriesOf(k)[n]) /\ IsYamlPath(EntriesOf(k)[n].ext)
          /\ EntriesOf(k)[n].raw = "ok"

\* The well-formed elements of the document at entry n of project k
ElementsOf(k, n) ==
    LET doc == EntriesOf(k)[n].doc
        at == SelectSeq([i \in 1..Len(doc.items) |-> i], LAMBDA i : doc.items[i] = "u")
    IN IF doc.parse = "ok" /\ doc.root = "list"
       THEN [ j \in 1..Len(at) |->
                [ source_project |-> k, source_file |-> n, item |-> at[j] ] ]
       ELSE << >>

RECURSIVE ElementsOfProject(_, _)
ElementsOfProject(k, n) ==
    IF n > Len(EntriesOf(k)) THEN << >>
    ELSE ElementsOf(k, n) \o ElementsOfProject(k, n + 1)

RECURSIVE ElementsOfGroup(_, _)
ElementsOfGroup(listed, m) ==
    IF m > Len(listed) THEN << >>
    ELSE ElementsOfProject(listed[m], 1) \o ElementsOfGroup(listed, m + 1)

Collected == { r_out.value[i] : i \in DOMAIN r_out.value }

\* C18: remote collection isolates parse failures per document.  When every
\* request succeeds, fetch_all_bookmarks raises nothing whatever the
\* documents hold: a document that does not parse or whose root is not a list
\* contributes nothing, any other contributes its mappings with a url, and
\* the records of all documents of all projects are returned in order.
C18_DocumentIsolation ==
    (FetchedAll /\ group.listing = "ok" /\ \A m \in DOMAIN Listed : AllServed(Listed[m]))
        => /\ r_out.outcome = "return"
           /\ r_out.value = ElementsOfGroup(Listed, 1)

\* A malformed document, then a document with a non-mapping element, then
\* another project: the records after the malformed document are collected.
C18_Witness ==
    /\ FetchedAll
    /\ r_out.outcome = "return"
    /\ Len(Listed) >= 2
    /\ \A m \in DOMAIN Listed : AllServed(Listed[m])
    /\ Len(EntriesOf(Listed[1])) = 2
    /\ EntriesOf(Listed[1])[1].doc.parse = "error"
    /\ EntriesOf(Listed[1])[2].doc.items = <<"s", "u">>
    /\ ElementsOfProject(Listed[2], 1) # << >>
    /\ r_out.value = ElementsOfProject(Listed[1], 1) \o ElementsOfProject(Listed[2], 1)
    /\ Len(r_out.value) >= 2

\* C19: remote failures are isolated per project.  When a project of the
\* group cannot be collected the run is marked failed, and the records of
\* every project that can be collected, listed before or after it, are among
\* the records collected for validation.
C19_ProjectIsolation ==
    (FetchedAll /\ group.listing = "ok") =>
        /\ (\E m \in DOMAIN Listed : ProjectFails(Listed[m])) => r_out.outcome = "raise"
        /\ \A m \in DOMAIN Listed :
              ~ProjectFails(Listed[m]) =>
                  \A n \in DOMAIN EntriesOf(Listed[m]) :
                      IsBlob(EntriesOf(Listed[m])[n]) =>
                          \A i \in DOMAIN ElementsOf(Listed[m], n) :
                              ElementsOf(Listed[m], n)[i] \in Collected

\* C20: for a project whose tree request and raw-content requests succeed,
\* fetch_project_yaml_files_content raises iff some blob of the listing has
\* a path that does not end in .yml or .yaml; otherwise, directory entries or
\* not, it returns one entry per blob, in listing order, each fetched at ref
\* main.
BlobsAt(k) == SelectSeq([n \in 1..Len(EntriesOf(k)) |-> n],
                        LAMBDA n : IsBlob(EntriesOf(k)[n]))

C20_ListYamlBlobs ==
    LET k == r_out.project
    IN ( /\ FetchedTree
         /\ group.projects[k].tree = "ok"
         /\ \A n \in DOMAIN EntriesOf(k) : EntriesOf(k)[n].raw = "ok" )
       => /\ r_out.outcome = "raise" <=>
                \E n \in DOMAIN EntriesOf(k) :
                    IsBlob(EntriesOf(k)[n]) /\ ~IsYamlPath(EntriesOf(k)[n].ext)
          /\ r_out.outcome = "return" =>
                /\ [ j \in DOMAIN r_out.value |-> r_out.value[j].path ] = BlobsAt(k)
                /\ \A j \in DOMAIN r_out.value :
                      r_out.value[j].content = EntriesOf(k)[r_out.value[j].path].doc
                /\ \A n \in DOMAIN BlobsAt(k) :
                      \E q \in DOMAIN r_out.requests :
                          r_out.requests[q] = <<"raw", k, BlobsAt(k)[n], "main">>

\* A listing followed over all its pages, as positions
AllPages(listing) == [ k \in 1..Len(listing) |-> k ]

\* The projects the group holds that are not validator projects, as positions
NotValidator ==
    SelectSeq(AllPages(group.projects),
              LAMBDA k : ~EndsWithValidator(group.projects[k].path))

\* C21: when the listing request succeeds, fetch_group_projects returns
\* exactly the projects of the group whose path does not end in
\* 'data-validator', in listing order, however many the group has; and
\* fetch_all_bookmarks, all of whose requests succeed, collects the records of
\* every one of them.
C21_ListsEveryProject ==
    /\ (r_out.op = "fetch_group_projects" /\ group.listing = "ok")
          => r_out.outcome = "return" /\ r_out.value = NotValidator
    /\ (FetchedAll /\ group.listing = "ok"
            /\ \A k \in DOMAIN group.projects : AllServed(k))
          => /\ r_out.outcome = "return"
             /\ r_out.value = ElementsOfGroup(NotValidator, 1)

\* The number of elements of the documents of project k, from entry n on,
\* that are mappings with a url key in a list root
RECURSIVE UrlMappingsFrom(_, _)
UrlMappingsFrom(k, n) ==
    IF n > Len(EntriesOf(k)) THEN 0
    ELSE LET doc == EntriesOf(k)[n].doc
         IN (IF doc.parse = "ok" /\ doc.root = "list"
             THEN Cardinality({ i \in DOMAIN doc.items : doc.items[i] = "u" })
             ELSE 0) + UrlMappingsFrom(k, n + 1)

RECURSIVE UrlMappingsOfGroup(_, _)
UrlMappingsOfGroup(listed, m) ==
    IF m > Len(listed) THEN 0
    ELSE UrlMappingsFrom(listed[m], 1) + UrlMappingsOfGroup(listed, m + 1)

\* Record a comes before record b in collection order
Before(a, b) ==
    \/ a.source_project < b.source_project
    \/ a.source_project = b.source_project /\ a.source_file < b.source_file
    \/ /\ a.source_project = b.source_project /\ a.source_file = b.source_file
       /\ a.item < b.item

\* C22: every record fetch_all_bookmarks returns is a top-level element of a
\* list document of a listed project that is a mapping with a url key,
\* tagged with that project and that file; the records come in project, file
\* and document order; and there are as many records as such elements, so no
\* other element is retained and none is lost.
C22_RetainedElements ==
    (FetchedAll /\ r_out.outcome = "return") =>
        /\ \A i \in DOMAIN r_out.value :
              LET b == r_out.value[i]
              IN /\ \E m \in DOMAIN Listed : Listed[m] = b.source_project
                 /\ b.source_file \in DOMAIN EntriesOf(b.source_project)
                 /\ LET doc == EntriesOf(b.source_project)[b.source_file].doc
                    IN /\ doc.parse = "ok" /\ doc.root = "list"
                       /\ b.item \in DOMAIN doc.items
                       /\ doc.items[b.item] = "u"
        /\ \A i, j \in DOMAIN r_out.value : i < j => Before(r_out.value[i], r_out.value[j])
        /\ Len(r_out.value) = UrlMappingsOfGroup(Listed, 1)

\* Two projects are collected; a document holds a mapping without url before
\* a mapping with one, another a non-mapping before a mapping with a url.
C22_Witness ==
    /\ FetchedAll
    /\ r_out.outcome = "return"
    /\ Len(Listed) >= 2
    /\ \E k \in DOMAIN group.projects, n \in DOMAIN r_out.value :
          /\ Len(EntriesOf(k)) = 1
          /\ EntriesOf(k)[1].doc.items = <<"m", "u">>
          /\ r_out.value[n] = [ source_project |-> k, source_file |-> 1, item |-> 2 ]
    /\ \E k \in DOMAIN group.projects, n \in DOMAIN r_out.value :
          /\ Len(EntriesOf(k)) = 2
          /\ EntriesOf(k)[2].doc.items = <<"s", "u">>
          /\ r_out.value[n] = [ source_project |-> k, source_file |-> 2, item |-> 2 ]
    /\ Len(r_out.value) = 2

====
